---------------------------- MODULE Spec2Model ----------------------------
(***************************************************************************)
(* A model of utopian/app.py: the weekly statistics of Utopian              *)
(* contributions (moderator, category and project statistics, the staff     *)
(* pick and task request filters), the request handlers that run them and   *)
(* the digest of staff picks.                                               *)
(*                                                                          *)
(* Python values are modelled as follows.                                   *)
(*   - a category is a sequence of one-character strings, so that `in` and  *)
(*     str.split are computed on the characters;                            *)
(*   - a dict that the code iterates (moderators, categories, projects) is  *)
(*     a sequence of [key, value] entries in insertion order;               *)
(*   - a float is an exact fraction [num, den] in lowest terms;             *)
(*   - a call that raises yields [raised |-> <exception name>].             *)
(***************************************************************************)
EXTENDS Integers, Sequences, FiniteSets, TLC

VARIABLES
    contributions,  \* the records the statistics are computed over
    snapshot,       \* history variable: the records as they were fetched
    ret,            \* the last call: the function called and what it returned
    log             \* what LOGGER has written, oldest first

vars == <<contributions, snapshot, ret, log>>

----------------------------------------------------------------------------
(* Bounds of the model.                                                     *)

\* longest record collection of the category and project statistics
MaxLen == 2
\* longest record collection of the moderator statistics
MaxMods == 3
\* longest record collection of the staff pick filter and the digest
MaxPicks == 3
\* longest list of scores handed to average
MaxScores == 3
\* largest count handed to percentage
MaxCount == 4
\* requests to /api/statistics in one behaviour
MaxPasses == 1

----------------------------------------------------------------------------
(* Python values.                                                           *)

Raise(e) == [raised |-> e]

IsRaised(v) == "raised" \in DOMAIN v

None == [none |-> TRUE]

Range(s) == {s[i] : i \in DOMAIN s}

RECURSIVE GCD(_, _)
GCD(a, b) == IF b = 0 THEN a ELSE GCD(b, a % b)

\* the float n / d, d # 0
Rat(n, d) == LET g == GCD(n, d) IN [num |-> n \div g, den |-> d \div g]

\* a / b on numbers
TrueDiv(a, b) == IF b = 0 THEN Raise("ZeroDivisionError") ELSE Rat(a, b)

RECURSIVE Sum(_)
Sum(s) == IF s = <<>> THEN 0 ELSE Head(s) + Sum(Tail(s))

\* sub in s
Contains(s, sub) ==
    \E i \in 1..(Len(s) - Len(sub) + 1) : SubSeq(s, i, i + Len(sub) - 1) = sub

\* s.find(sub) + 1: the first place sub starts at in s, 0 when there is none
Find(s, sub) ==
    LET at == {i \in 1..(Len(s) - Len(sub) + 1) :
                   SubSeq(s, i, i + Len(sub) - 1) = sub}
    IN  IF at = {} THEN 0 ELSE CHOOSE i \in at : \A j \in at : i <= j

\* s.split(sep)
RECURSIVE Split(_, _)
Split(s, sep) ==
    LET i == Find(s, sep)
    IN  IF i = 0 THEN <<s>>
        ELSE <<SubSeq(s, 1, i - 1)>> \o Split(SubSeq(s, i + Len(sep), Len(s)), sep)

\* collections.Counter(list)
Counter(list) ==
    [k \in Range(list) |-> Cardinality({i \in DOMAIN list : list[i] = k})]

\* the place of key in a dict, 0 when it has none
IndexOf(dict, key) ==
    IF \E i \in DOMAIN dict : dict[i].key = key
    THEN CHOOSE i \in DOMAIN dict : dict[i].key = key
    ELSE 0

\* dict.setdefault(key, default), as the dict afterwards
SetDefault(dict, key, default) ==
    IF IndexOf(dict, key) = 0
    THEN Append(dict, [key |-> key, value |-> default])
    ELSE dict

\* dict[key] = value for a key the dict has
Store(dict, key, value) ==
    [dict EXCEPT ![IndexOf(dict, key)] = [key |-> key, value |-> value]]

Get(dict, key) == dict[IndexOf(dict, key)].value

task == <<"t", "a", "s", "k">>

task_dash == <<"t", "a", "s", "k", "-">>

----------------------------------------------------------------------------
(* Numeric helpers.                                                         *)

\* statistics.mean
mean(data) ==
    IF Len(data) = 0 THEN Raise("StatisticsError") ELSE Rat(Sum(data), Len(data))

average_uncaught(score) == mean(score)

average(score) ==
    IF IsRaised(mean(score)) THEN Rat(0, 1) ELSE mean(score)

percentage(reviewed, voted) ==
    IF IsRaised(TrueDiv(100 * voted, reviewed))
    THEN Rat(100, 1)
    ELSE TrueDiv(100 * voted, reviewed)

----------------------------------------------------------------------------
(* moderator_statistics.                                                    *)

ModeratorStep_banned_counted(moderators, contribution) ==
    IF contribution.status = "unreviewed" THEN moderators
    ELSE LET moderator == contribution.moderator
             d == SetDefault(moderators, moderator,
                     [moderator |-> moderator, category |-> <<>>,
                      average_score |-> <<>>])
             v == Get(d, moderator)
         IN  Store(d, moderator,
                 [v EXCEPT !.average_score = Append(@, contribution.score),
                           !.category = Append(@, contribution.category)])

\* one iteration of the loop over the contributions
ModeratorStep(moderators, contribution) ==
    IF contribution.status = "unreviewed" THEN moderators
    ELSE IF contribution.moderator = "BANNED" THEN moderators
    ELSE LET moderator == contribution.moderator
             d == SetDefault(moderators, moderator,
                     [moderator |-> moderator, category |-> <<>>,
                      average_score |-> <<>>])
             v == Get(d, moderator)
         IN  Store(d, moderator,
                 [v EXCEPT !.average_score = Append(@, contribution.score),
                           !.category = Append(@, contribution.category)])

RECURSIVE ModeratorLoop(_, _, _)
ModeratorLoop(cs, i, moderators) ==
    IF i > Len(cs) THEN moderators
    ELSE ModeratorLoop(cs, i + 1, ModeratorStep(moderators, cs[i]))

ModeratorFinal(value) ==
    [value EXCEPT !.category = Counter(@), !.average_score = average(@)]

moderator_statistics(cs) ==
    LET moderators == ModeratorLoop(cs, 1, <<>>)
    IN  [moderators |-> [i \in DOMAIN moderators |-> ModeratorFinal(moderators[i].value)]]

----------------------------------------------------------------------------
(* category_statistics.                                                     *)

\* category.split("task-")[1]
CategoryKey(category) ==
    IF Len(Split(category, task_dash)) < 2
    THEN Raise("IndexError")
    ELSE [key |-> Split(category, task_dash)[2]]

\* the bucket a category starts with
CategoryDefault(category) ==
    [category |-> category, average_score |-> <<>>, voted |-> 0,
     not_voted |-> 0, unvoted |-> 0, task_requests |-> 0,
     moderators |-> <<>>, average_payout |-> <<>>, total_payout |-> 0]

CategoryVote_unvoted_only(value, contribution) ==
    IF contribution.status = "unvoted"
    THEN [value EXCEPT !.unvoted = @ + 1]
    ELSE IF contribution.voted_on
    THEN [value EXCEPT !.voted = @ + 1]
    ELSE [value EXCEPT !.not_voted = @ + 1]

CategoryVote_no_else(value, contribution) ==
    IF contribution.status = "unvoted"
    THEN [value EXCEPT !.unvoted = @ + 1, !.not_voted = @ + 1]
    ELSE IF contribution.voted_on
    THEN [value EXCEPT !.voted = @ + 1]
    ELSE value

\* the vote counters of a bucket after one contribution
CategoryVote(value, contribution) ==
    IF contribution.status = "unvoted"
    THEN [value EXCEPT !.unvoted = @ + 1, !.not_voted = @ + 1]
    ELSE IF contribution.voted_on
    THEN [value EXCEPT !.voted = @ + 1]
    ELSE [value EXCEPT !.not_voted = @ + 1]

\* the bucket after the contribution is counted in it
CategoryAdd(value, contribution, is_task) ==
    LET v == CategoryVote(value, contribution)
        w == IF is_task THEN [v EXCEPT !.task_requests = @ + 1] ELSE v
    IN  [w EXCEPT !.moderators = Append(@, contribution.moderator),
                  !.average_score = Append(@, contribution.score),
                  !.total_payout = @ + contribution.total_payout]

\* one iteration of the loop over the contributions
CategoryStep(categories, contribution) ==
    IF contribution.status = "unreviewed" THEN [categories |-> categories]
    ELSE LET is_task == Contains(contribution.category, task)
             k == IF is_task
                  THEN CategoryKey(contribution.category)
                  ELSE [key |-> contribution.category]
         IN  IF IsRaised(k) THEN k
             ELSE LET category == k.key
                      d == SetDefault(categories, category, CategoryDefault(category))
                  IN  [categories |->
                          Store(d, category,
                                CategoryAdd(Get(d, category), contribution, is_task))]

RECURSIVE CategoryLoop(_, _, _)
CategoryLoop(cs, i, acc) ==
    IF IsRaised(acc) \/ i > Len(cs) THEN acc
    ELSE CategoryLoop(cs, i + 1, CategoryStep(acc.categories, cs[i]))

\* the keys a bucket gets after the loop
CategoryFinal(value) ==
    LET reviewed == value.voted + value.not_voted
        average_payout == TrueDiv(value.total_payout, reviewed)
    IN  IF IsRaised(average_payout) THEN average_payout
        ELSE [category |-> value.category,
              average_score |-> average(value.average_score),
              voted |-> value.voted, not_voted |-> value.not_voted,
              unvoted |-> value.unvoted, task_requests |-> value.task_requests,
              moderators |-> Counter(value.moderators),
              average_payout |-> average_payout,
              total_payout |-> value.total_payout,
              reviewed |-> reviewed,
              pct_voted |-> percentage(reviewed, value.voted)]

category_statistics(cs) ==
    LET acc == CategoryLoop(cs, 1, [categories |-> <<>>])
    IN  IF IsRaised(acc) THEN acc
        ELSE LET list == [i \in DOMAIN acc.categories |->
                              CategoryFinal(acc.categories[i].value)]
             IN  IF \E i \in DOMAIN list : IsRaised(list[i])
                 THEN Raise("ZeroDivisionError")
                 ELSE [categories |-> list]

----------------------------------------------------------------------------
(* project_statistics.                                                      *)

\* the bucket a project starts with
ProjectDefault(project) ==
    [project |-> project, average_score |-> <<>>, voted |-> 0,
     not_voted |-> 0, unvoted |-> 0, task_requests |-> 0,
     moderators |-> <<>>, average_payout |-> <<>>, total_payout |-> 0]

\* the vote counters of a bucket after one contribution
ProjectVote(value, contribution) ==
    IF contribution.status = "unvoted"
    THEN [value EXCEPT !.unvoted = @ + 1, !.not_voted = @ + 1]
    ELSE IF contribution.voted_on
    THEN [value EXCEPT !.voted = @ + 1]
    ELSE [value EXCEPT !.not_voted = @ + 1]

\* the bucket after the contribution is counted in it
ProjectAdd(value, contribution) ==
    LET v == ProjectVote(value, contribution)
        w == IF Contains(contribution.category, task)
             THEN [v EXCEPT !.task_requests = @ + 1]
             ELSE v
    IN  [w EXCEPT !.moderators = Append(@, contribution.moderator),
                  !.average_score = Append(@, contribution.score),
                  !.total_payout = @ + contribution.total_payout]

\* one iteration of the loop over the contributions
ProjectStep(projects, contribution) ==
    IF contribution.status = "unreviewed" THEN projects
    ELSE LET project == contribution.repository
             d == SetDefault(projects, project, ProjectDefault(project))
         IN  Store(d, project, ProjectAdd(Get(d, project), contribution))

RECURSIVE ProjectLoop(_, _, _)
ProjectLoop(cs, i, projects) ==
    IF i > Len(cs) THEN projects
    ELSE ProjectLoop(cs, i + 1, ProjectStep(projects, cs[i]))

\* the keys a bucket gets after the loop
ProjectFinal(value) ==
    LET reviewed == value.voted + value.not_voted
        average_payout == TrueDiv(value.total_payout, reviewed)
    IN  IF IsRaised(average_payout) THEN average_payout
        ELSE [project |-> value.project,
              average_score |-> average(value.average_score),
              voted |-> value.voted, not_voted |-> value.not_voted,
              unvoted |-> value.unvoted, task_requests |-> value.task_requests,
              moderators |-> Counter(value.moderators),
              average_payout |-> average_payout,
              total_payout |-> value.total_payout,
              reviewed |-> reviewed,
              pct_voted |-> percentage(reviewed, value.voted)]

project_statistics(cs) ==
    LET projects == ProjectLoop(cs, 1, <<>>)
        list == [i \in DOMAIN projects |-> ProjectFinal(projects[i].value)]
    IN  IF \E i \in DOMAIN list : IsRaised(list[i])
        THEN Raise("ZeroDivisionError")
        ELSE [projects |-> list]

----------------------------------------------------------------------------
(* The two filters.                                                         *)

RECURSIVE StaffPickLoop(_, _, _)
StaffPickLoop(cs, i, staff_picks) ==
    IF i > Len(cs) THEN staff_picks
    ELSE IF ~cs[i].staff_picked THEN StaffPickLoop(cs, i + 1, staff_picks)
    ELSE StaffPickLoop(cs, i + 1, Append(staff_picks, cs[i]))

RECURSIVE StaffPickLoop_front(_, _, _)
StaffPickLoop_front(cs, i, staff_picks) ==
    IF i > Len(cs) THEN staff_picks
    ELSE IF ~cs[i].staff_picked THEN StaffPickLoop_front(cs, i + 1, staff_picks)
    ELSE StaffPickLoop_front(cs, i + 1, <<cs[i]>> \o staff_picks)

staff_pick_statistics_front(cs) == [staff_picks |-> StaffPickLoop_front(cs, 1, <<>>)]

staff_pick_statistics(cs) == [staff_picks |-> StaffPickLoop(cs, 1, <<>>)]

RECURSIVE TaskRequestLoop(_, _, _)
TaskRequestLoop(cs, i, task_requests) ==
    IF i > Len(cs) THEN task_requests
    ELSE IF Contains(cs[i].category, task)
    THEN TaskRequestLoop(cs, i + 1, Append(task_requests, cs[i]))
    ELSE TaskRequestLoop(cs, i + 1, task_requests)

RECURSIVE TaskRequestLoop_reviewed(_, _, _)
TaskRequestLoop_reviewed(cs, i, task_requests) ==
    IF i > Len(cs) THEN task_requests
    ELSE IF cs[i].status # "unreviewed" /\ Contains(cs[i].category, task)
    THEN TaskRequestLoop_reviewed(cs, i + 1, Append(task_requests, cs[i]))
    ELSE TaskRequestLoop_reviewed(cs, i + 1, task_requests)

task_request_statistics_reviewed(cs) ==
    [task_requests |-> TaskRequestLoop_reviewed(cs, 1, <<>>)]

task_request_statistics(cs) == [task_requests |-> TaskRequestLoop(cs, 1, <<>>)]

----------------------------------------------------------------------------
(* The argument of a component after the call.  No statement of the five    *)
(* components assigns to the list or to a key of a contribution.            *)

ModeratorArg(cs) == cs

CategoryArg_writeback(cs) ==
    [i \in DOMAIN cs |->
        IF cs[i].status # "unreviewed" /\ Contains(cs[i].category, task_dash)
        THEN [cs[i] EXCEPT !.category = Split(@, task_dash)[2]]
        ELSE cs[i]]

CategoryArg(cs) == cs

ProjectArg(cs) == cs

StaffPickArg(cs) == cs

TaskRequestArg(cs) == cs

----------------------------------------------------------------------------
(* WeeklyResource.get.                                                      *)

\* the dates a request may carry
Dates == {"today", "yesterweek"}

\* string_to_date: "yesterweek" is no date to dateutil's parse, and abort raises
string_to_date(input) ==
    IF input = "today" THEN [date |-> "now"]
    ELSE Raise("HTTPException")

\* line 331 and the return, cs being the records after line 330
PassTaskRequests(moderators, categories, projects, staff_picks, cs) ==
    [json |-> <<moderators, categories, projects, staff_picks,
                task_request_statistics(cs)>>]

\* line 330 on, cs being the records after line 329
PassStaffPicks(moderators, categories, projects, cs) ==
    PassTaskRequests(moderators, categories, projects,
                     staff_pick_statistics(cs), StaffPickArg(cs))

\* line 329 on, cs being the records after line 328
PassProjects(moderators, categories, cs) ==
    IF IsRaised(project_statistics(cs)) THEN project_statistics(cs)
    ELSE PassStaffPicks(moderators, categories, project_statistics(cs),
                        ProjectArg(cs))

\* line 328 on, cs being the records after line 327
PassCategories(moderators, cs) ==
    IF IsRaised(category_statistics(cs)) THEN category_statistics(cs)
    ELSE PassProjects(moderators, category_statistics(cs), CategoryArg(cs))

\* the statements of the try block, cs being what the database returns
WeeklyTry(date, cs) ==
    IF IsRaised(string_to_date(date)) THEN string_to_date(date)
    ELSE PassCategories(moderator_statistics(cs), ModeratorArg(cs))

WeeklyResource_get_uncaught(date, cs) ==
    [value |-> WeeklyTry(date, cs),
     log |-> <<[level |-> "INFO", message |-> date]>>]

\* what the handler returns and what it logs
WeeklyResource_get(date, cs) ==
    LET r == WeeklyTry(date, cs)
        info == [level |-> "INFO", message |-> date]
    IN  IF IsRaised(r)
        THEN [value |-> None,
              log |-> <<info, [level |-> "ERROR", message |-> r.raised]>>]
        ELSE [value |-> r, log |-> <<info>>]

----------------------------------------------------------------------------
(* The digest of the staff picks.                                           *)

\* the text added for one staff pick, a sequence of pieces of text
Block(title, staff_pick) ==
    <<"[", title, "](", staff_pick.url, ") by ", staff_pick.author, " [">>
    \o staff_pick.category
    \o <<"]\n",
         "[Image (contributor profile image / image from the post)]\n\n",
         "[Paragraph: Background info on project etc.]\n\n",
         "[Paragraph: CM review, including etc.]\n\n",
         "Total payout: ", ToString(staff_pick.total_payout), "\n",
         "Number of votes: ", ToString(staff_pick.total_votes), "\n\n">>

SectionAdd_front(section, block) == block \o section

\* section += block
SectionAdd(section, block) == section \o block

\* the loop of staff_pick_section; lookup[url] is what Comment(url).json() gives
RECURSIVE SectionLoop(_, _, _, _)
SectionLoop(picks, i, lookup, section) ==
    IF i > Len(picks) THEN [section |-> section]
    ELSE LET post == lookup[picks[i].url]
         IN  IF IsRaised(post) THEN post
             ELSE SectionLoop(picks, i + 1, lookup,
                              SectionAdd(section, Block(post.title, picks[i])))

staff_pick_section(staff_picks, lookup) ==
    SectionLoop(staff_picks.staff_picks, 1, lookup, <<>>)

\* the handler of /weekly
weekly(cs, lookup) == staff_pick_section(staff_pick_statistics(cs), lookup)

----------------------------------------------------------------------------
(* The records the specifications start from.                               *)

dev == <<"d", "e", "v">>

task_dev == <<"t", "a", "s", "k", "-", "d", "e", "v">>

tasks == <<"t", "a", "s", "k", "s">>

Authors == [u1 |-> "alice", u2 |-> "bob"]

\* a contribution; it has a score once it is reviewed
Record(status, category, repository, moderator, score, voted_on, staff_picked, url) ==
    LET r == [status |-> status, category |-> category, repository |-> repository,
              moderator |-> moderator, voted_on |-> voted_on,
              staff_picked |-> staff_picked, url |-> url, author |-> Authors[url],
              total_payout |-> IF voted_on THEN 10 ELSE 0,
              total_votes |-> IF voted_on THEN 3 ELSE 0]
    IN  IF status = "unreviewed" THEN r ELSE r @@ [score |-> score]

\* records that differ in what category_statistics and project_statistics read
StatRecords ==
    {Record(st, c, IF c = task_dev THEN "r2" ELSE "r1",
            IF st = "unvoted" THEN "B" ELSE "A", IF v THEN 80 ELSE 40, v,
            v /\ st = "reviewed", "u1") :
        st \in {"unreviewed", "unvoted", "reviewed"},
        c \in {dev, task_dev, tasks},
        v \in BOOLEAN}

\* records that differ in what moderator_statistics reads
ModRecords ==
    {Record(st, c, "r1", m, sc, TRUE, FALSE, "u1") :
        st \in {"unreviewed", "reviewed"},
        c \in {dev, task_dev},
        m \in {"A", "B", "BANNED"},
        sc \in {40, 85}}

\* records that differ in what the staff pick filter and the digest read
PickRecords ==
    {Record("reviewed", c, "r1", "A", 80, TRUE, p, u) :
        c \in {dev, task_dev},
        p \in BOOLEAN,
        u \in {"u1", "u2"}}

SeqsUpTo(S, n) == UNION {[1..k -> S] : k \in 0..n}

\* what Comment(url).json() may give for the two posts
Lookups ==
    [{"u1", "u2"} -> {[title |-> "First"], [title |-> "Second"],
                      Raise("ContentDoesNotExistsException")}]

Scores == {0, 40, 85, 100}

----------------------------------------------------------------------------
(* The state machine.                                                       *)

Start(records, n) ==
    /\ contributions \in SeqsUpTo(records, n)
    /\ snapshot = contributions
    /\ ret = [fn |-> "none"]
    /\ log = <<>>

Init == Start(StatRecords, MaxLen)

InitMod == Start(ModRecords, MaxMods)

InitPicks == Start(PickRecords, MaxPicks)

InitHelpers == Start({}, 0)

CallModeratorStatistics ==
    /\ ret' = [fn |-> "moderator_statistics",
               value |-> moderator_statistics(contributions)]
    /\ contributions' = ModeratorArg(contributions)
    /\ UNCHANGED <<snapshot, log>>

CallCategoryStatistics ==
    /\ ret' = [fn |-> "category_statistics",
               value |-> category_statistics(contributions)]
    /\ contributions' = CategoryArg(contributions)
    /\ UNCHANGED <<snapshot, log>>

CallProjectStatistics ==
    /\ ret' = [fn |-> "project_statistics",
               value |-> project_statistics(contributions)]
    /\ contributions' = ProjectArg(contributions)
    /\ UNCHANGED <<snapshot, log>>

CallStaffPickStatistics ==
    /\ ret' = [fn |-> "staff_pick_statistics",
               value |-> staff_pick_statistics(contributions)]
    /\ contributions' = StaffPickArg(contributions)
    /\ UNCHANGED <<snapshot, log>>

CallTaskRequestStatistics ==
    /\ ret' = [fn |-> "task_request_statistics",
               value |-> task_request_statistics(contributions)]
    /\ contributions' = TaskRequestArg(contributions)
    /\ UNCHANGED <<snapshot, log>>

\* a request to /api/statistics/<date>
Passes == Cardinality({i \in DOMAIN log : log[i].level = "INFO"})

GetWeekly ==
    /\ Passes < MaxPasses
    /\ \E date \in Dates :
          LET r == WeeklyResource_get(date, contributions)
          IN  /\ ret' = [fn |-> "WeeklyResource.get", date |-> date, value |-> r.value]
              /\ log' = log \o r.log
    /\ UNCHANGED <<contributions, snapshot>>

\* a request to /weekly
GetDigest ==
    /\ \E lookup \in Lookups :
          LET urls == {contributions[i].url : i \in
                          {j \in DOMAIN contributions : contributions[j].staff_picked}}
          IN  ret' = [fn |-> "weekly",
                      lookup |-> [u \in urls |-> lookup[u]],
                      value |-> weekly(contributions, lookup)]
    /\ UNCHANGED <<contributions, snapshot, log>>

CallAverage ==
    /\ \E score \in SeqsUpTo(Scores, MaxScores) :
          ret' = [fn |-> "average", score |-> score, value |-> average(score)]
    /\ UNCHANGED <<contributions, snapshot, log>>

CallPercentage ==
    /\ \E reviewed \in 0..MaxCount, voted \in 0..MaxCount :
          ret' = [fn |-> "percentage", reviewed |-> reviewed, voted |-> voted,
                  value |-> percentage(reviewed, voted)]
    /\ UNCHANGED <<contributions, snapshot, log>>

Next ==
    \/ CallModeratorStatistics
    \/ CallCategoryStatistics
    \/ CallProjectStatistics
    \/ CallStaffPickStatistics
    \/ CallTaskRequestStatistics
    \/ GetWeekly
    \/ GetDigest

NextMod == CallModeratorStatistics

NextPicks ==
    \/ CallStaffPickStatistics
    \/ GetDigest

NextHelpers ==
    \/ CallAverage
    \/ CallPercentage

Spec == Init /\ [][Next]_vars

SpecMod == InitMod /\ [][NextMod]_vars

SpecPicks == InitPicks /\ [][NextPicks]_vars

SpecHelpers == InitHelpers /\ [][NextHelpers]_vars

----------------------------------------------------------------------------
(* What the claims read.                                                    *)

Reviewed(cs) == {i \in DOMAIN cs : cs[i].status # "unreviewed"}

\* the buckets of the last category_statistics, alone or in a weekly pass
CategoryBuckets ==
    IF ret.fn = "category_statistics" /\ ~IsRaised(ret.value)
    THEN ret.value.categories
    ELSE IF ret.fn = "WeeklyResource.get" /\ ret.value # None
    THEN ret.value.json[2].categories
    ELSE <<>>

\* the buckets of the last project_statistics, alone or in a weekly pass
ProjectBuckets ==
    IF ret.fn = "project_statistics" /\ ~IsRaised(ret.value)
    THEN ret.value.projects
    ELSE IF ret.fn = "WeeklyResource.get" /\ ret.value # None
    THEN ret.value.json[3].projects
    ELSE <<>>

\* the key category_statistics files a category under
KeyOf(category) ==
    IF Contains(category, task) THEN CategoryKey(category).key ELSE category

\* the records a component fails on
Fails(cs) ==
    IsRaised(category_statistics(cs)) \/ IsRaised(project_statistics(cs))

----------------------------------------------------------------------------
(* C1: every bucket that category_statistics and project_statistics produce *)
(* has reviewed = voted + not_voted and unvoted <= not_voted.               *)
C1_BucketCounters ==
    /\ \A i \in DOMAIN CategoryBuckets :
          /\ CategoryBuckets[i].reviewed
                = CategoryBuckets[i].voted + CategoryBuckets[i].not_voted
          /\ CategoryBuckets[i].unvoted <= CategoryBuckets[i].not_voted
    /\ \A i \in DOMAIN ProjectBuckets :
          /\ ProjectBuckets[i].reviewed
                = ProjectBuckets[i].voted + ProjectBuckets[i].not_voted
          /\ ProjectBuckets[i].unvoted <= ProjectBuckets[i].not_voted

\* a category bucket that counts a voted and an unvoted contribution
C1_Witness ==
    /\ ret.fn = "category_statistics"
    /\ \E i \in DOMAIN CategoryBuckets :
          /\ CategoryBuckets[i].voted = 1
          /\ CategoryBuckets[i].unvoted = 1
          /\ CategoryBuckets[i].reviewed = 2

----------------------------------------------------------------------------
(* C2, as the claim states it: category_statistics does not fail; a record  *)
(* that is not unreviewed is counted under what follows the first "task-"   *)
(* of its category and as a task request when the category contains         *)
(* "task-", and under its category as it is, and not as a task request,     *)
(* when it does not.                                                        *)
ClaimedKey(category) ==
    IF Contains(category, task_dash)
    THEN SubSeq(category, Find(category, task_dash) + Len(task_dash), Len(category))
    ELSE category

C2_TaskPrefixOnly ==
    ret.fn = "category_statistics" =>
        /\ ~IsRaised(ret.value)
        /\ \A i \in Reviewed(snapshot) :
              \E b \in DOMAIN ret.value.categories :
                 LET bucket == ret.value.categories[b]
                 IN  /\ bucket.category = ClaimedKey(snapshot[i].category)
                     /\ bucket.task_requests =
                           Cardinality({j \in Reviewed(snapshot) :
                               /\ ClaimedKey(snapshot[j].category) = bucket.category
                               /\ Contains(snapshot[j].category, task_dash)})

----------------------------------------------------------------------------
(* C3: moderator_statistics produces exactly one bucket for each moderator  *)
(* of a record that is neither unreviewed nor BANNED; a bucket holds the     *)
(* scores and the categories of those records of its moderator and of no     *)
(* other record; no bucket is for BANNED.                                    *)
Moderated(cs) == {i \in Reviewed(cs) : cs[i].moderator # "BANNED"}

RECURSIVE ScoreSum(_, _)
ScoreSum(cs, S) ==
    IF S = {} THEN 0
    ELSE LET i == CHOOSE j \in S : TRUE IN cs[i].score + ScoreSum(cs, S \ {i})

C3_ModeratorBuckets ==
    ret.fn = "moderator_statistics" =>
        LET buckets == ret.value.moderators
            names == {snapshot[i].moderator : i \in Moderated(snapshot)}
        IN  /\ Len(buckets) = Cardinality(names)
            /\ {buckets[b].moderator : b \in DOMAIN buckets} = names
            /\ \A b \in DOMAIN buckets :
                  LET of == {i \in Moderated(snapshot) :
                                snapshot[i].moderator = buckets[b].moderator}
                  IN  /\ buckets[b].moderator # "BANNED"
                      /\ DOMAIN buckets[b].category = {snapshot[i].category : i \in of}
                      /\ \A c \in DOMAIN buckets[b].category :
                            buckets[b].category[c] =
                               Cardinality({i \in of : snapshot[i].category = c})
                      /\ buckets[b].average_score = Rat(ScoreSum(snapshot, of),
                                                        Cardinality(of))

\* one bucket from three records, one of them unreviewed and one BANNED
C3_Witness ==
    /\ ret.fn = "moderator_statistics"
    /\ Len(ret.value.moderators) = 1
    /\ Len(snapshot) = 3
    /\ \E i \in DOMAIN snapshot : snapshot[i].status = "unreviewed"
    /\ \E i \in Reviewed(snapshot) : snapshot[i].moderator = "BANNED"

----------------------------------------------------------------------------
(* C4: task_request_statistics returns every record whose category contains *)
(* "task", unreviewed ones too; category_statistics counts no unreviewed     *)
(* record in any bucket.                                                     *)
C4_TaskFilterIgnoresStatus ==
    /\ ret.fn = "task_request_statistics" =>
          /\ \A i \in DOMAIN snapshot :
                Contains(snapshot[i].category, task) =>
                   \E j \in DOMAIN ret.value.task_requests :
                      ret.value.task_requests[j] = snapshot[i]
          /\ Len(ret.value.task_requests) =
                Cardinality({i \in DOMAIN snapshot :
                                Contains(snapshot[i].category, task)})
    /\ \A b \in DOMAIN CategoryBuckets :
          /\ \E i \in Reviewed(snapshot) :
                KeyOf(snapshot[i].category) = CategoryBuckets[b].category
          /\ CategoryBuckets[b].reviewed <=
                Cardinality({i \in Reviewed(snapshot) :
                    KeyOf(snapshot[i].category) = CategoryBuckets[b].category})

\* an unreviewed task request among the task requests and in no category
C4_Witness ==
    /\ ret.fn = "task_request_statistics"
    /\ \E j \in DOMAIN ret.value.task_requests :
          /\ ret.value.task_requests[j].status = "unreviewed"
          /\ ret.value.task_requests[j].category = task_dev
    /\ category_statistics(snapshot) = [categories |-> <<>>]

----------------------------------------------------------------------------
(* C5: staff_pick_statistics returns the staff picked records of its        *)
(* argument, each once, in the order of the argument and as they are.        *)
IsStaffPick(contribution) == contribution.staff_picked

C5_StaffPicksInOrder ==
    ret.fn = "staff_pick_statistics" =>
        ret.value.staff_picks = SelectSeq(snapshot, IsStaffPick)

\* two different staff picks around a record that is no staff pick
C5_Witness ==
    /\ ret.fn = "staff_pick_statistics"
    /\ Len(snapshot) = 3
    /\ ~snapshot[2].staff_picked
    /\ Len(ret.value.staff_picks) = 2
    /\ ret.value.staff_picks[1] # ret.value.staff_picks[2]

----------------------------------------------------------------------------
(* C6: a weekly pass in which a component fails returns nothing of what the  *)
(* other components computed, logs the error, and raises nothing.            *)
C6_WholePassFailure ==
    ret.fn = "WeeklyResource.get" =>
        /\ ~IsRaised(ret.value)
        /\ Fails(snapshot) =>
              /\ ret.value = None
              /\ log[Len(log)].level = "ERROR"
        /\ ret.value # None =>
              /\ ~Fails(snapshot)
              /\ Len(ret.value.json) = 5

\* a pass that failed in category_statistics, after moderator_statistics
C6_Witness ==
    /\ ret.fn = "WeeklyResource.get"
    /\ ret.date = "today"
    /\ IsRaised(category_statistics(snapshot))
    /\ Len(moderator_statistics(snapshot).moderators) > 0
    /\ ret.value = None
    /\ log[Len(log)] = [level |-> "ERROR", message |-> "IndexError"]

----------------------------------------------------------------------------
(* C7: when every title lookup succeeds, the digest is one block for each    *)
(* staff pick, the blocks in the order of the staff picks.                   *)
IsUrl(piece) == piece \in {"u1", "u2"}

IsPayoutLabel(piece) == piece = "Total payout: "

IsTitle(piece) == piece \in {"First", "Second"}

RECURSIVE Blocks(_, _)
Blocks(picks, lookup) ==
    IF picks = <<>> THEN <<>>
    ELSE Block(lookup[Head(picks).url].title, Head(picks))
            \o Blocks(Tail(picks), lookup)

C7_DigestInOrder ==
    (/\ ret.fn = "weekly"
     /\ \A u \in DOMAIN ret.lookup : ~IsRaised(ret.lookup[u])) =>
        LET picks == SelectSeq(snapshot, IsStaffPick)
        IN  /\ ~IsRaised(ret.value)
            /\ Len(SelectSeq(ret.value.section, IsPayoutLabel)) = Len(picks)
            /\ SelectSeq(ret.value.section, IsUrl)
                  = [i \in DOMAIN picks |-> picks[i].url]
            /\ SelectSeq(ret.value.section, IsTitle)
                  = [i \in DOMAIN picks |-> ret.lookup[picks[i].url].title]
            /\ ret.value.section = Blocks(picks, ret.lookup)

\* a digest of three staff picks of two posts with different titles
C7_Witness ==
    /\ ret.fn = "weekly"
    /\ ~IsRaised(ret.value)
    /\ Len(SelectSeq(snapshot, IsStaffPick)) = 3
    /\ snapshot[1].url # snapshot[2].url
    /\ snapshot[1].category # snapshot[3].category
    /\ ret.lookup["u1"] # ret.lookup["u2"]

----------------------------------------------------------------------------
(* C8: average and percentage raise nothing; average is 0 for no scores and  *)
(* the mean otherwise; percentage(total, part) is 100 when total is 0 and    *)
(* 100 * part / total otherwise.                                             *)
C8_HelpersNeverFail ==
    /\ ret.fn = "average" =>
          /\ ~IsRaised(ret.value)
          /\ ret.score = <<>> => ret.value.num = 0
          /\ ret.score # <<>> =>
                /\ ret.value.den > 0
                /\ ret.value.num * Len(ret.score) = Sum(ret.score) * ret.value.den
    /\ ret.fn = "percentage" =>
          /\ ~IsRaised(ret.value)
          /\ ret.reviewed = 0 => ret.value = [num |-> 100, den |-> 1]
          /\ ret.reviewed # 0 =>
                /\ ret.value.den > 0
                /\ ret.value.num * ret.reviewed = 100 * ret.voted * ret.value.den

\* the average of no scores
C8_Witness ==
    /\ ret.fn = "average"
    /\ ret.score = <<>>
    /\ ret.value = [num |-> 0, den |-> 1]

----------------------------------------------------------------------------
(* C9: a bucket's reviewed is the number of records filed under its key that *)
(* are not unreviewed, its unvoted the number of those whose status is       *)
(* unvoted, and reviewed is at least 1; category_statistics and              *)
(* project_statistics never divide by zero.                                  *)
C9_ReviewedCountsRecords ==
    /\ ret.fn \in {"category_statistics", "project_statistics"} =>
          ret.value # Raise("ZeroDivisionError")
    /\ \A e \in DOMAIN log : log[e].message # "ZeroDivisionError"
    /\ \A b \in DOMAIN CategoryBuckets :
          LET of == {i \in Reviewed(snapshot) :
                        KeyOf(snapshot[i].category) = CategoryBuckets[b].category}
          IN  /\ CategoryBuckets[b].reviewed = Cardinality(of)
              /\ CategoryBuckets[b].reviewed >= 1
              /\ CategoryBuckets[b].unvoted =
                    Cardinality({i \in of : snapshot[i].status = "unvoted"})
    /\ \A b \in DOMAIN ProjectBuckets :
          LET of == {i \in Reviewed(snapshot) :
                        snapshot[i].repository = ProjectBuckets[b].project}
          IN  /\ ProjectBuckets[b].reviewed = Cardinality(of)
              /\ ProjectBuckets[b].reviewed >= 1
              /\ ProjectBuckets[b].unvoted =
                    Cardinality({i \in of : snapshot[i].status = "unvoted"})

\* a bucket of a record that was not voted on and of an unvoted one that was
C9_Witness ==
    /\ ret.fn = "category_statistics"
    /\ Len(CategoryBuckets) = 1
    /\ CategoryBuckets[1].reviewed = 2
    /\ CategoryBuckets[1].voted = 0
    /\ \E i \in DOMAIN snapshot :
          snapshot[i].status = "unvoted" /\ snapshot[i].voted_on

----------------------------------------------------------------------------
(* C10: the five components leave the records as they were, so that each     *)
(* returns what it returns on the records as fetched, whichever ran before.  *)
C10_RecordsUnchanged ==
    /\ contributions = snapshot
    /\ ret.fn = "moderator_statistics" =>
          ret.value = moderator_statistics(snapshot)
    /\ ret.fn = "category_statistics" =>
          ret.value = category_statistics(snapshot)
    /\ ret.fn = "project_statistics" =>
          ret.value = project_statistics(snapshot)
    /\ ret.fn = "staff_pick_statistics" =>
          ret.value = staff_pick_statistics(snapshot)
    /\ ret.fn = "task_request_statistics" =>
          ret.value = task_request_statistics(snapshot)
    /\ (ret.fn = "WeeklyResource.get" /\ ret.value # None) =>
          ret.value.json = <<moderator_statistics(snapshot),
                             category_statistics(snapshot),
                             project_statistics(snapshot),
                             staff_pick_statistics(snapshot),
                             task_request_statistics(snapshot)>>

\* a pass whose five components each had records to work on
C10_Witness ==
    /\ ret.fn = "WeeklyResource.get"
    /\ ret.value # None
    /\ Len(ret.value.json[2].categories) = 1
    /\ Len(ret.value.json[3].projects) = 2
    /\ Len(ret.value.json[4].staff_picks) = 1
    /\ Len(ret.value.json[5].task_requests) = 1

=============================================================================
